---- MODULE Spec2Model ----
(***************************************************************************)
(* Order processing pipeline of aws-order-processing-system:               *)
(*   - Order Lambda        (src/lambdas/order-service/index.ts)            *)
(*   - Inventory Lambda    (src/lambdas/inventory-worker/index.ts)         *)
(* coordinated through two DynamoDB tables (orders, inventory), one SNS    *)
(* topic and the inventory SQS queue with its dead-letter queue.           *)
(*                                                                         *)
(* Every await on a DynamoDB / SNS / HTTP call is one atomic step of the    *)
(* invocation that issues it; invocations interleave between the steps.    *)
(* Timestamps (createdAt, updatedAt, timestamp) are not modelled.          *)
(***************************************************************************)
EXTENDS Integers, Sequences, FiniteSets, Bags, TLC

\* ---------------------------------------------------------------- bounds
MaxStock == 2                      \* largest seeded stock of the product

Reqs     == {"r1", "r2"}           \* API Gateway invocations of the Order Lambda
Workers  == {"w1", "w2"}           \* concurrent Inventory Lambda instances
WorkerRank == [w \in Workers |-> IF w = "w1" THEN 1 ELSE 2]
\* randomUUID(): every invocation that reaches the call gets a value no
\* other invocation gets
randomUUID == [r \in Reqs |-> IF r = "r1" THEN "o1" ELSE "o2"]
OrderIds == { randomUUID[r] : r \in Reqs }
Product  == "PROD-001"             \* the productId orders are placed for
Customer == "CUST-123"
Amount   == 1998
Quantities == {-1, 1, 2}           \* non-zero quantities a client can send

\* SQS redrive policy of the inventory queue: "3 retries, then message lands in DLQ"
MaxReceiveCount == 3

Fields == {"customerId", "productId", "quantity", "totalAmount"}

PENDING   == "PENDING"
CONFIRMED == "CONFIRMED"
FAILED_INSUFFICIENT_STOCK == "FAILED_INSUFFICIENT_STOCK"
Terminal  == {CONFIRMED, FAILED_INSUFFICIENT_STOCK}

VARIABLES
    orders,      \* DynamoDB orders table: orderId -> item (partial function)
    inventory,   \* DynamoDB inventory table: productId -> stock (partial function)
    seeded,      \* the inventory table as seeded before traffic (never changes)
    published,   \* sequence of messages published to the SNS order topic
    invQueue,    \* inventory SQS queue: orderId -> [msg, st, rc] (partial function)
    intake,      \* Order Lambda invocations: Reqs -> [pc, body, orderId, resp, calls]
    worker,      \* Inventory Lambda invocations: Workers -> [pc, orderId, productId, quantity, stock]
    notifQueue,  \* notification SQS queue: orderId -> [msg, st, rc] (partial function)
    notifier,    \* Notifier Lambda invocation: [pc, batch, reply, content]
    emails       \* bag of the emails SES accepted: [orderId, subject, body]

notifVars == <<notifQueue, notifier, emails>>

vars == <<orders, inventory, seeded, published, invQueue, intake, worker,
          notifQueue, notifier, emails>>

\* ------------------------------------------------------- request bodies
\* event.body of the API Gateway event.  json = FALSE is a body JSON.parse
\* rejects; a field listed in missing is absent from the parsed object.
Body(json, missing, c, p, q, t) ==
    [json |-> json, missing |-> missing,
     customerId |-> c, productId |-> p, quantity |-> q, totalAmount |-> t]

NoBody == Body(TRUE, Fields, "", "", 0, 0)         \* '{}' (event.body null)

ValidBodies == { Body(TRUE, {}, Customer, Product, q, Amount) : q \in Quantities }

InvalidBodies ==
    { Body(TRUE, {f}, Customer, Product, 1, Amount) : f \in Fields }
    \cup { Body(TRUE, {}, "", Product, 1, Amount),
           Body(TRUE, {}, Customer, "", 1, Amount),
           Body(TRUE, {}, Customer, Product, 0, Amount),
           Body(TRUE, {}, Customer, Product, 1, 0),
           NoBody }

MalformedBody == Body(FALSE, {}, "", "", 0, 0)

Bodies == ValidBodies \cup InvalidBodies \cup {MalformedBody}

\* JavaScript !body.f : the field is absent, the empty string or the number 0
Falsy(body, f) ==
    \/ f \in body.missing
    \/ (f \in {"customerId", "productId"} /\ body[f] = "")
    \/ (f \in {"quantity", "totalAmount"} /\ body[f] = 0)

\* the validation with the quantity check left out
MissingRequiredFieldsNoQuantity(body) ==
    Falsy(body, "customerId") \/ Falsy(body, "productId") \/ Falsy(body, "totalAmount")

\* order-service/index.ts line 62
MissingRequiredFields(body) ==
    Falsy(body, "customerId") \/ Falsy(body, "productId")
        \/ Falsy(body, "quantity") \/ Falsy(body, "totalAmount")

\* ------------------------------------------------------------ Risk Gate
\* What the scoring call can do.
RiskReplies == {"clean", "flagged", "transportError", "missingChoices",
                "notJson", "wrongShape", "jsonNull"}

FraudResult(isNull, fraud, reason) ==
    [isNull |-> isNull, isFraudulent |-> fraud, reason |-> reason]

FailOpen == FraudResult(FALSE, FALSE, "fraud check unavailable")

\* checkFraud that drops the service's verdict
checkFraudNeverFlags(reply) ==
    IF reply = "jsonNull" THEN FraudResult(TRUE, FALSE, "") ELSE FailOpen

\* checkFraud that fails closed: a failed call counts as fraud
checkFraudFailClosed(reply) ==
    CASE reply = "clean"      -> FraudResult(FALSE, FALSE, "looks normal")
      [] reply = "wrongShape" -> FraudResult(FALSE, FALSE, "")
      [] reply = "jsonNull"   -> FraudResult(TRUE, FALSE, "")
      [] OTHER                -> FraudResult(FALSE, TRUE, "abnormal quantity")

\* checkFraud: the value the function returns for each reply of the service.
\* isFraudulent is the truthiness of the returned object's field.
checkFraud(reply) ==
    CASE reply = "clean"          -> FraudResult(FALSE, FALSE, "looks normal")
      [] reply = "flagged"        -> FraudResult(FALSE, TRUE, "abnormal quantity")
      [] reply = "wrongShape"     -> FraudResult(FALSE, FALSE, "")
      [] reply = "jsonNull"       -> FraudResult(TRUE, FALSE, "")
      [] reply = "transportError" -> FailOpen
      [] reply = "missingChoices" -> FailOpen
      [] reply = "notJson"        -> FailOpen

\* ------------------------------------------------------------ responses
NoResp == [statusCode |-> 0, orderId |-> "", reason |-> ""]
Resp(code, id, reason) == [statusCode |-> code, orderId |-> id, reason |-> reason]

\* calls: the outbound calls the invocation has issued, in order;
\* fault: the call on which the store or the bus failed ("" when none did)
\* the outer catch answering 201
InternalErrorAsCreated == Resp(201, "", "PENDING")

\* handler, lines 117-120: the outer catch answers 500
InternalError == Resp(500, "", "")

IdleIntake == [pc |-> "idle", body |-> NoBody, reply |-> "", orderId |-> "",
               resp |-> NoResp, calls |-> <<>>, fault |-> ""]

\* ------------------------------------------------------- DynamoDB tables
OrderItem(id, body) ==
    [orderId |-> id, customerId |-> body.customerId, productId |-> body.productId,
     quantity |-> body.quantity, totalAmount |-> body.totalAmount, status |-> PENDING]

\* PutItem without the ConditionExpression
PutItemOverwrite(table, item) ==
    [ok |-> TRUE, table |-> (item.orderId :> item) @@ table]

\* PutItem with ConditionExpression attribute_not_exists(orderId)
PutItemIfAbsent(table, item) ==
    IF item.orderId \in DOMAIN table
    THEN [ok |-> FALSE, table |-> table]
    ELSE [ok |-> TRUE,  table |-> (item.orderId :> item) @@ table]

\* the status write dropped
updateOrderStatusDropped(table, orderId, status) == table

\* UpdateItem SET #s = :status (no condition; creates the item when absent)
updateOrderStatus(table, orderId, status) ==
    IF orderId \in DOMAIN table
    THEN [table EXCEPT ![orderId].status = status]
    ELSE (orderId :> [orderId |-> orderId, customerId |-> "", productId |-> "",
                      quantity |-> 0, totalAmount |-> 0, status |-> status]) @@ table

\* the stock of an absent item read as 1
ReadStockDefaultOne(table, productId) ==
    IF productId \in DOMAIN table THEN table[productId] ELSE 1

\* parseInt(currentStock.Item?.stock?.N || '0')
ReadStock(table, productId) ==
    IF productId \in DOMAIN table THEN table[productId] ELSE 0

\* the stock comparison off by one
InsufficientStockOffByOne(stock, qty) == stock + 1 < qty

\* inventory-worker/index.ts line 31
InsufficientStock(stock, qty) == stock < qty

\* the decrement without its ConditionExpression
DecrementConditionItemExists(table, productId, qty) ==
    productId \in DOMAIN table

\* UpdateItem SET stock = stock - :qty with ConditionExpression stock >= :qty
DecrementCondition(table, productId, qty) ==
    productId \in DOMAIN table /\ table[productId] >= qty

DecrementStock(table, productId, qty) ==
    [table EXCEPT ![productId] = @ - qty]

\* ---------------------------------------------------------------- Init
EmptyTable == [x \in {} |-> 0]

NoContent == [isNull |-> FALSE, subject |-> <<>>, body |-> <<>>]

IdleNotifier == [pc |-> "idle", batch |-> <<>>, i |-> 0, reply |-> "", content |-> NoContent]

Init ==
    /\ orders = EmptyTable
    /\ inventory \in {EmptyTable} \cup { (Product :> s) : s \in 0..MaxStock }
    /\ seeded = inventory
    /\ published = <<>>
    /\ invQueue = EmptyTable
    /\ intake = [r \in Reqs |-> IdleIntake]
    /\ worker = [w \in Workers |-> [pc |-> "idle", orderId |-> "", productId |-> "",
                                    quantity |-> 0, stock |-> 0]]
    /\ notifQueue = EmptyTable
    /\ notifier = IdleNotifier
    /\ emails = EmptyBag

\* ------------------------------------------------- Order Lambda (intake)
\* handler, lines 58-64: parse the body and validate it.  A body that is not
\* JSON throws into the outer catch (500); a missing field returns 400;
\* otherwise the handler awaits checkFraud.
Handle(r, bodies) ==
    /\ intake[r].pc = "idle"
    /\ \E body \in bodies :
         intake' = [intake EXCEPT ![r] =
            IF ~body.json
            THEN [@ EXCEPT !.pc = "done", !.body = body, !.resp = InternalError]
            ELSE IF MissingRequiredFields(body)
            THEN [@ EXCEPT !.pc = "done", !.body = body, !.resp = Resp(400, "", "")]
            ELSE [@ EXCEPT !.pc = "checkFraud", !.body = body]]
    /\ UNCHANGED <<orders, inventory, seeded, published, invQueue, worker>>
    /\ UNCHANGED notifVars

\* handler, lines 66-77: the Risk Gate answers.  A null result makes
\* fraudResult.isFraudulent throw (500); a fraudulent one returns 422;
\* otherwise orderId = randomUUID() and the handler awaits the PutItem.
CheckFraud(r, replies) ==
    /\ intake[r].pc = "checkFraud"
    /\ \E reply \in replies :
         LET fraudResult == checkFraud(reply)
             called == [intake[r] EXCEPT !.reply = reply, !.calls = Append(@, "risk")]
         IN  IF fraudResult.isNull
             THEN /\ intake' = [intake EXCEPT ![r] =
                        [called EXCEPT !.pc = "done", !.resp = InternalError]]
             ELSE IF fraudResult.isFraudulent
             THEN /\ intake' = [intake EXCEPT ![r] =
                        [called EXCEPT !.pc = "done",
                                       !.resp = Resp(422, "", fraudResult.reason)]]
             ELSE /\ intake' = [intake EXCEPT ![r] =
                        [called EXCEPT !.pc = "put", !.orderId = randomUUID[r]]]
    /\ UNCHANGED <<orders, inventory, seeded, published, invQueue, worker>>
    /\ UNCHANGED notifVars

\* handler, lines 79-92: the conditional PutItem.  The store evaluates the
\* condition and writes in one step.  A rejected condition
\* (ConditionalCheckFailedException) and a store error throw into the outer
\* catch (500).  When the answer to a write is lost the SDK sends the write
\* again and the handler keeps waiting.
PutOrder(r) ==
    /\ intake[r].pc = "put"
    /\ LET item   == OrderItem(intake[r].orderId, intake[r].body)
           put    == PutItemIfAbsent(orders, item)
           called == [intake[r] EXCEPT !.calls = Append(@, "put")]
       IN  \/ /\ orders' = put.table
              /\ intake' = [intake EXCEPT ![r] =
                    IF put.ok
                    THEN [called EXCEPT !.pc = "publish"]
                    ELSE [called EXCEPT !.pc = "done", !.fault = "putCondition",
                                        !.resp = InternalError]]
           \/ /\ orders' = put.table
              /\ intake' = intake
           \/ /\ orders' = orders
              /\ intake' = [intake EXCEPT ![r] =
                    [called EXCEPT !.pc = "done", !.fault = "put",
                                   !.resp = InternalError]]
    /\ UNCHANGED <<inventory, seeded, published, invQueue, worker>>
    /\ UNCHANGED notifVars

\* the event carrying the amount in its quantity field
OrderEventAmountAsQuantity(id, body) ==
    [orderId |-> id, customerId |-> body.customerId, productId |-> body.productId,
     quantity |-> body.totalAmount, totalAmount |-> body.totalAmount]

\* handler, lines 98-105: the Message of the PublishCommand
OrderEvent(id, body) ==
    [orderId |-> id, customerId |-> body.customerId, productId |-> body.productId,
     quantity |-> body.quantity, totalAmount |-> body.totalAmount]

\* the topic dropping the copy
EnqueueDropped(queue, msg) == queue

\* The topic delivers a copy of a published message to a subscribed queue.
Enqueue(queue, msg) ==
    (msg.orderId :> [msg |-> msg, st |-> "visible", rc |-> 0]) @@ queue

\* handler, lines 94-116: publish to the SNS topic, which copies the message
\* to the inventory queue and to the notification queue, and return 201; a
\* publish failure throws into the outer catch (500).
Publish(r) ==
    /\ intake[r].pc = "publish"
    /\ LET msg    == OrderEvent(intake[r].orderId, intake[r].body)
           called == [intake[r] EXCEPT !.calls = Append(@, "publish")]
       IN  \/ /\ published' = Append(published, msg)
              /\ invQueue' = Enqueue(invQueue, msg)
              /\ notifQueue' = Enqueue(notifQueue, msg)
              /\ intake' = [intake EXCEPT ![r] =
                    [called EXCEPT !.pc = "done",
                                   !.resp = Resp(201, intake[r].orderId, PENDING)]]
           \/ /\ UNCHANGED <<published, invQueue, notifQueue>>
              /\ intake' = [intake EXCEPT ![r] =
                    [called EXCEPT !.pc = "done", !.fault = "publish",
                                   !.resp = InternalError]]
    /\ UNCHANGED <<orders, inventory, seeded, worker, notifier, emails>>

\* ------------------------------------------------ inventory queue (SQS)
IdleWorker == [pc |-> "idle", orderId |-> "", productId |-> "", quantity |-> 0, stock |-> 0]

\* The event source mapping (batchSize 1) hands a visible message to an idle
\* Inventory Lambda instance (the instances are interchangeable: the first
\* idle one takes it); the message becomes invisible and its receive count
\* goes up.  handler, lines 15-20: unwrap the order and start on it.
Receive(w, o) ==
    /\ worker[w].pc = "idle"
    /\ \A v \in Workers : worker[v].pc = "idle" => WorkerRank[w] <= WorkerRank[v]
    /\ o \in DOMAIN invQueue
    /\ invQueue[o].st = "visible"
    /\ invQueue[o].rc < MaxReceiveCount
    /\ invQueue' = [invQueue EXCEPT ![o].st = "inflight", ![o].rc = @ + 1]
    /\ worker' = [worker EXCEPT ![w] =
          [pc |-> "getStock", orderId |-> invQueue[o].msg.orderId,
           productId |-> invQueue[o].msg.productId,
           quantity |-> invQueue[o].msg.quantity, stock |-> 0]]
    /\ UNCHANGED <<orders, inventory, seeded, published, intake>>
    /\ UNCHANGED notifVars

\* At-least-once delivery: a message that was received and not deleted is
\* visible again, after its visibility window ran out or as a duplicate
\* delivery of the queue, whether or not the invocation that received it is
\* still running.
VisibilityTimeout(o) ==
    /\ o \in DOMAIN invQueue
    /\ invQueue[o].st = "inflight"
    /\ invQueue' = [invQueue EXCEPT ![o].st = "visible"]
    /\ UNCHANGED <<orders, inventory, seeded, published, intake, worker>>
    /\ UNCHANGED notifVars

\* A visible message that used up its receives moves to the dead-letter queue.
DeadLetter(o) ==
    /\ o \in DOMAIN invQueue
    /\ invQueue[o].st = "visible"
    /\ invQueue[o].rc >= MaxReceiveCount
    /\ invQueue' = [invQueue EXCEPT ![o].st = "dlq"]
    /\ UNCHANGED <<orders, inventory, seeded, published, intake, worker>>
    /\ UNCHANGED notifVars

\* Lambda deletes the message of an invocation that returned.
Acknowledge(queue, o) ==
    IF o \in DOMAIN queue /\ queue[o].st \in {"inflight", "visible"}
    THEN [queue EXCEPT ![o].st = "deleted"]
    ELSE queue

\* The handler returned: the invocation is over and its message is deleted.
Return(w) ==
    /\ invQueue' = Acknowledge(invQueue, worker[w].orderId)
    /\ worker' = [worker EXCEPT ![w] = IdleWorker]

\* The invocation that threw is over; its message is left to its
\* visibility window.
Finish(w) ==
    /\ worker[w].pc = "threw"
    /\ worker' = [worker EXCEPT ![w] = IdleWorker]
    /\ UNCHANGED <<orders, inventory, seeded, published, invQueue, intake>>
    /\ UNCHANGED notifVars

\* the catch dropping the error: the handler returns
ThrowSwallowed(w) ==
    /\ Return(w)
    /\ UNCHANGED <<orders, inventory>>

\* handler, lines 58-61: a failed store call that is not a rejected
\* condition is re-thrown.
Throw(w) ==
    /\ worker' = [worker EXCEPT ![w] = [IdleWorker EXCEPT !.pc = "threw"]]
    /\ UNCHANGED <<orders, inventory, invQueue>>

\* --------------------------------------------- Inventory Lambda (worker)
\* handler, lines 24-36: GetItem of the product's stock, then the branch on
\* stock < order.quantity.  A failed read is re-thrown by the catch.
GetStock(w) ==
    /\ worker[w].pc = "getStock"
    /\ \/ LET stock == ReadStock(inventory, worker[w].productId)
          IN  /\ worker' = [worker EXCEPT ![w].stock = stock,
                    ![w].pc = IF InsufficientStock(stock, worker[w].quantity)
                              THEN "markInsufficient" ELSE "decrement"]
              /\ UNCHANGED <<orders, inventory, invQueue>>
       \/ Throw(w)
    /\ UNCHANGED <<seeded, published, intake>>
    /\ UNCHANGED notifVars

\* handler, lines 33-35: status FAILED_INSUFFICIENT_STOCK, then continue:
\* the loop ends and the handler returns.
MarkInsufficient(w) ==
    /\ worker[w].pc = "markInsufficient"
    /\ \/ /\ orders' = updateOrderStatus(orders, worker[w].orderId, FAILED_INSUFFICIENT_STOCK)
          /\ Return(w)
          /\ UNCHANGED inventory
       \/ Throw(w)
    /\ UNCHANGED <<seeded, published, intake>>
    /\ UNCHANGED notifVars

\* handler, lines 39-47 and 54: the conditional UpdateItem.  The condition is
\* evaluated by the store at the write; a rejected condition is caught
\* (ConditionalCheckFailedException), any other failure is re-thrown.
Decrement(w) ==
    /\ worker[w].pc = "decrement"
    /\ \/ IF DecrementCondition(inventory, worker[w].productId, worker[w].quantity)
          THEN /\ inventory' = DecrementStock(inventory, worker[w].productId, worker[w].quantity)
               /\ worker' = [worker EXCEPT ![w].pc = "markConfirmed"]
               /\ UNCHANGED <<orders, invQueue>>
          ELSE /\ worker' = [worker EXCEPT ![w].pc = "markRace"]
               /\ UNCHANGED <<orders, inventory, invQueue>>
       \/ Throw(w)
    /\ UNCHANGED <<seeded, published, intake>>
    /\ UNCHANGED notifVars

\* handler, lines 50-51: status CONFIRMED, the handler returns.
MarkConfirmed(w) ==
    /\ worker[w].pc = "markConfirmed"
    /\ \/ /\ orders' = updateOrderStatus(orders, worker[w].orderId, CONFIRMED)
          /\ Return(w)
          /\ UNCHANGED inventory
       \/ Throw(w)
    /\ UNCHANGED <<seeded, published, intake>>
    /\ UNCHANGED notifVars

\* handler, lines 54-57: the catch of the rejected decrement writes
\* FAILED_INSUFFICIENT_STOCK; a failure of that write leaves the catch.
MarkRace(w) ==
    /\ worker[w].pc = "markRace"
    /\ \/ /\ orders' = updateOrderStatus(orders, worker[w].orderId, FAILED_INSUFFICIENT_STOCK)
          /\ Return(w)
          /\ UNCHANGED inventory
       \/ Throw(w)
    /\ UNCHANGED <<seeded, published, intake>>
    /\ UNCHANGED notifVars

\* ------------------------------------------- Notifier Lambda (part_000)
\* batchSize of the notification event source
BatchSize == 5

\* what the content service's answer can be: a usable {subject, body} object,
\* a failed or timed-out call, an answer without choices, content that is not
\* JSON, JSON of another shape ({}), and the JSON literal null
ContentReplies == {"generated", "transportError", "missingChoices", "notJson",
                   "wrongShape", "jsonNull"}

\* the replies on which the call fails, times out or gives content that is
\* not a {subject, body} pair
UnusableReplies == ContentReplies \ {"generated"}

\* generateEmailContent, lines 46-52: the template of the catch
FallbackContent(order) ==
    [isNull  |-> FALSE,
     subject |-> <<"Order Confirmation #", order.orderId>>,
     body    |-> <<"Thank you for your order! Your order for ",
                   ToString(order.quantity), "x ", order.productId, " ($",
                   ToString(order.totalAmount),
                   ") has been received and is being processed.">>]

\* generateEmailContent, lines 16-53: return JSON.parse(content); whatever
\* throws before the return is caught and the template is returned.  Parsed
\* JSON is returned as it is: {} has neither field, null is null.
generateEmailContent(order, reply) ==
    CASE reply = "generated"  -> [isNull |-> FALSE, subject |-> <<"generated subject">>,
                                  body |-> <<"generated body">>]
      [] reply = "wrongShape" -> [isNull |-> FALSE, subject |-> <<>>, body |-> <<>>]
      [] reply = "jsonNull"   -> [isNull |-> TRUE, subject |-> <<>>, body |-> <<>>]
      [] OTHER                -> FallbackContent(order)

\* the messages the event source can hand over: visible, receives left
Receivable ==
    { o \in DOMAIN notifQueue :
        notifQueue[o].st = "visible" /\ notifQueue[o].rc < MaxReceiveCount }

\* a batch: up to BatchSize receivable messages, each once, in some order
Batches ==
    { b \in UNION { [1..n -> Receivable] : n \in 1..BatchSize } :
        \A i, j \in DOMAIN b : b[i] = b[j] => i = j }

\* the record the loop is working on
Record == notifier.batch[notifier.i]

\* The event source mapping hands a batch to the idle Notifier Lambda; the
\* messages become invisible and their receive counts go up.
NotifReceive ==
    /\ notifier.pc = "idle"
    /\ \E b \in Batches :
         /\ notifQueue' = [o \in DOMAIN notifQueue |->
               IF \E i \in DOMAIN b : b[i] = o
               THEN [notifQueue[o] EXCEPT !.st = "inflight", !.rc = @ + 1]
               ELSE notifQueue[o]]
         /\ notifier' = [pc |-> "generate", batch |-> [i \in DOMAIN b |-> notifQueue[b[i]].msg],
                         i |-> 1, reply |-> "", content |-> NoContent]
    /\ UNCHANGED <<orders, inventory, seeded, published, invQueue, intake, worker, emails>>

\* see VisibilityTimeout
NotifVisibilityTimeout(o) ==
    /\ o \in DOMAIN notifQueue
    /\ notifQueue[o].st = "inflight"
    /\ notifQueue' = [notifQueue EXCEPT ![o].st = "visible"]
    /\ UNCHANGED <<orders, inventory, seeded, published, invQueue, intake, worker,
                   notifier, emails>>

\* see DeadLetter
NotifDeadLetter(o) ==
    /\ o \in DOMAIN notifQueue
    /\ notifQueue[o].st = "visible"
    /\ notifQueue[o].rc >= MaxReceiveCount
    /\ notifQueue' = [notifQueue EXCEPT ![o].st = "dlq"]
    /\ UNCHANGED <<orders, inventory, seeded, published, invQueue, intake, worker,
                   notifier, emails>>

RECURSIVE AcknowledgeAll(_, _)
\* Lambda deletes every message of a batch whose invocation returned.
AcknowledgeAll(queue, batch) ==
    IF batch = <<>> THEN queue
    ELSE AcknowledgeAll(Acknowledge(queue, Head(batch).orderId), Tail(batch))

\* handler, lines 57-84: the loop goes on to the next record; after the last
\* one the handler returns and the batch is deleted.
NextRecord ==
    IF notifier.i < Len(notifier.batch)
    THEN /\ notifier' = [notifier EXCEPT !.pc = "generate", !.i = @ + 1,
                                         !.reply = "", !.content = NoContent]
         /\ UNCHANGED notifQueue
    ELSE /\ notifier' = IdleNotifier
         /\ notifQueue' = AcknowledgeAll(notifQueue, notifier.batch)

\* the catch logging the send error without throwing it again
NotifierSwallow ==
    /\ NextRecord
    /\ UNCHANGED emails

\* handler, lines 80-83: the catch throws the send error again, the
\* invocation fails and the batch is left to its visibility window.
NotifierThrow ==
    /\ notifier' = [IdleNotifier EXCEPT !.pc = "threw"]
    /\ UNCHANGED <<notifQueue, emails>>

\* handler, line 63: await generateEmailContent(order)
Generate ==
    /\ notifier.pc = "generate"
    /\ \E reply \in ContentReplies :
         notifier' = [notifier EXCEPT !.pc = "send", !.reply = reply,
                         !.content = generateEmailContent(Record, reply)]
    /\ UNCHANGED <<orders, inventory, seeded, published, invQueue, intake, worker,
                   notifQueue, emails>>

\* the email service takes a message whose Subject and Body texts are there
Sendable(content) ==
    ~content.isNull /\ content.subject # <<>> /\ content.body # <<>>

\* handler, lines 65-83: ses.send inside the try.  Reading .subject of null
\* throws inside the try; the service rejects a message without texts and may
\* fail on any message.
Send ==
    /\ notifier.pc = "send"
    /\ \/ /\ Sendable(notifier.content)
          /\ emails' = emails (+) SetToBag({[orderId |-> Record.orderId,
                                              subject |-> notifier.content.subject,
                                              body    |-> notifier.content.body]})
          /\ NextRecord
       \/ NotifierThrow
    /\ UNCHANGED <<orders, inventory, seeded, published, invQueue, intake, worker>>

\* The invocation that threw is over.
NotifierFinish ==
    /\ notifier.pc = "threw"
    /\ notifier' = IdleNotifier
    /\ UNCHANGED <<orders, inventory, seeded, published, invQueue, intake, worker,
                   notifQueue, emails>>

\* -------------------------------------------------------- specification
\* The whole pipeline.  Requests that end in the handler's first lines are
\* represented by the empty body and the flagged reply.
PipelineBodies  == ValidBodies \cup {NoBody}
PipelineReplies == {"clean", "flagged"}

Next ==
    \/ \E r \in Reqs : Handle(r, PipelineBodies)
    \/ \E r \in Reqs : CheckFraud(r, PipelineReplies)
    \/ \E r \in Reqs : PutOrder(r)
    \/ \E r \in Reqs : Publish(r)
    \/ \E w \in Workers, o \in OrderIds : Receive(w, o)
    \/ \E o \in OrderIds : VisibilityTimeout(o)
    \/ \E o \in OrderIds : DeadLetter(o)
    \/ \E w \in Workers : GetStock(w)
    \/ \E w \in Workers : MarkInsufficient(w)
    \/ \E w \in Workers : Decrement(w)
    \/ \E w \in Workers : MarkConfirmed(w)
    \/ \E w \in Workers : MarkRace(w)
    \/ \E w \in Workers : Finish(w)

Spec == Init /\ [][Next]_vars

\* The Order Lambda alone, over every request body and every reply of the
\* scoring service.
NextIntake ==
    \/ \E r \in Reqs : Handle(r, Bodies)
    \/ \E r \in Reqs : CheckFraud(r, RiskReplies)
    \/ \E r \in Reqs : PutOrder(r)
    \/ \E r \in Reqs : Publish(r)

SpecIntake == Init /\ [][NextIntake]_vars

\* Intake and the Notifier Lambda with its queue.
NextNotify ==
    \/ \E r \in Reqs : Handle(r, PipelineBodies)
    \/ \E r \in Reqs : CheckFraud(r, PipelineReplies)
    \/ \E r \in Reqs : PutOrder(r)
    \/ \E r \in Reqs : Publish(r)
    \/ NotifReceive
    \/ \E o \in OrderIds : NotifVisibilityTimeout(o)
    \/ \E o \in OrderIds : NotifDeadLetter(o)
    \/ Generate
    \/ Send
    \/ NotifierFinish

SpecNotify == Init /\ [][NextNotify]_vars

\* the table seeded as in the README's walk-through
InitSeeded == Init /\ inventory = (Product :> MaxStock)

\* Lambda runs a started invocation to its end and the queue service goes on
\* delivering, re-delivering and dead-lettering.
FairNotify ==
    /\ InitSeeded /\ [][NextNotify]_vars
    /\ WF_vars(NotifReceive)
    /\ WF_vars(Generate)
    /\ WF_vars(Send)
    /\ WF_vars(NotifierFinish)
    /\ \A o \in OrderIds : WF_vars(NotifVisibilityTimeout(o))
    /\ \A o \in OrderIds : WF_vars(NotifDeadLetter(o))


\* the steps of one Inventory Lambda invocation
WorkerStep(w) ==
    \/ GetStock(w) \/ MarkInsufficient(w) \/ Decrement(w)
    \/ MarkConfirmed(w) \/ MarkRace(w) \/ Finish(w)

\* the Inventory Lambda instance of the settlement liveness check
Settler == "w1"

\* The pipeline with one Inventory Lambda instance at a time.
NextSettle ==
    \/ \E r \in Reqs : Handle(r, PipelineBodies)
    \/ \E r \in Reqs : CheckFraud(r, PipelineReplies)
    \/ \E r \in Reqs : PutOrder(r)
    \/ \E r \in Reqs : Publish(r)
    \/ \E o \in OrderIds : Receive(Settler, o)
    \/ \E o \in OrderIds : VisibilityTimeout(o)
    \/ \E o \in OrderIds : DeadLetter(o)
    \/ GetStock(Settler)
    \/ MarkInsufficient(Settler)
    \/ Decrement(Settler)
    \/ MarkConfirmed(Settler)
    \/ MarkRace(Settler)
    \/ Finish(Settler)

\* The queue goes on delivering, re-delivering and dead-lettering, and Lambda
\* runs a started invocation to its end.
FairSettle ==
    /\ Init /\ [][NextSettle]_vars
    /\ WF_vars(\E o \in OrderIds : Receive(Settler, o))
    /\ WF_vars(\E o \in OrderIds : VisibilityTimeout(o))
    /\ WF_vars(\E o \in OrderIds : DeadLetter(o))
    /\ WF_vars(WorkerStep(Settler))

\* the request of the fan-out check
Shopper == "r1"

\* One request through intake and both consumers.
NextFanout ==
    \/ Handle(Shopper, PipelineBodies)
    \/ CheckFraud(Shopper, PipelineReplies)
    \/ PutOrder(Shopper)
    \/ Publish(Shopper)
    \/ \E w \in Workers, o \in OrderIds : Receive(w, o)
    \/ \E o \in OrderIds : VisibilityTimeout(o)
    \/ \E o \in OrderIds : DeadLetter(o)
    \/ \E w \in Workers : GetStock(w)
    \/ \E w \in Workers : MarkInsufficient(w)
    \/ \E w \in Workers : Decrement(w)
    \/ \E w \in Workers : MarkConfirmed(w)
    \/ \E w \in Workers : MarkRace(w)
    \/ \E w \in Workers : Finish(w)
    \/ NotifReceive
    \/ \E o \in OrderIds : NotifVisibilityTimeout(o)
    \/ \E o \in OrderIds : NotifDeadLetter(o)
    \/ Generate
    \/ Send
    \/ NotifierFinish

SpecFanout == Init /\ [][NextFanout]_vars

TypeOK ==
    /\ DOMAIN orders \subseteq OrderIds
    /\ DOMAIN inventory \subseteq {Product}
    /\ \A w \in Workers : worker[w].pc \in
          {"idle", "getStock", "markInsufficient", "decrement", "markConfirmed",
           "markRace", "threw"}

\* ------------------------------------------------------------ properties
RECURSIVE SumQuantity(_)
SumQuantity(ids) ==
    IF ids = {} THEN 0
    ELSE LET o == CHOOSE x \in ids : TRUE
         IN  orders[o].quantity + SumQuantity(ids \ {o})

ConfirmedOrders == { o \in DOMAIN orders : orders[o].status = CONFIRMED }
Stock       == ReadStock(inventory, Product)
SeededStock == ReadStock(seeded, Product)

\* every message put on the inventory queue was deleted after a successful
\* invocation or moved to the dead-letter queue, and no invocation is running
Settled ==
    /\ \A w \in Workers : worker[w].pc = "idle"
    /\ \A o \in DOMAIN invQueue : invQueue[o].st \in {"deleted", "dlq"}

\* C1 - No oversell: in every reachable state the stock is >= 0 and the
\* quantities of the CONFIRMED orders sum to at most the seeded stock S.
C1_NoOversell ==
    /\ Stock >= 0
    /\ SumQuantity(ConfirmedOrders) <= SeededStock

\* C2 - Stock accounting: once every delivered event is acknowledged or
\* dead-lettered, stock = S - (sum of the quantities of the CONFIRMED orders).
C2_StockAccounting ==
    Settled => Stock = SeededStock - SumQuantity(ConfirmedOrders)

\* C3 - Terminal statuses are stable: an order whose status is CONFIRMED or
\* FAILED_INSUFFICIENT_STOCK keeps that status in every step.
C3_TerminalStable ==
    [][\A o \in DOMAIN orders :
          orders[o].status \in Terminal => orders'[o].status = orders[o].status]_vars

\* C4 - Idempotent settlement: a worker step on an event whose order is
\* already CONFIRMED or FAILED_INSUFFICIENT_STOCK leaves the stock unchanged.
C4_NoResettlement ==
    [][\A w \in Workers :
          (/\ worker'[w] # worker[w]
           /\ worker[w].orderId \in DOMAIN orders
           /\ orders[worker[w].orderId].status \in Terminal)
          => inventory' = inventory]_vars

\* the four fields that make two creation requests the same logical request
Request(x) == <<x.customerId, x.productId, x.quantity, x.totalAmount>>

PublishedFor(id) == { i \in DOMAIN published : published[i].orderId = id }

\* C5 - Idempotent insert: when the insert of an invocation finds a record
\* with its orderId, the record stays as first written (PENDING, with the
\* request's fields), the attempt ends in a condition failure answered with
\* 500, and no event is published for it.
C5_IdempotentInsert ==
    /\ [][\A r \in Reqs :
            (intake[r].pc = "put" /\ intake[r].orderId \in DOMAIN orders)
            => /\ intake[r].orderId \in DOMAIN orders'
               /\ orders'[intake[r].orderId] = orders[intake[r].orderId]
               /\ intake'[r].pc # "put"
                    => /\ intake'[r].pc = "done"
                       /\ intake'[r].resp.statusCode = 500
                       /\ published' = published]_vars
    /\ [](\A r \in Reqs :
            intake[r].fault = "putCondition"
            => /\ intake[r].resp.statusCode = 500
               /\ orders[intake[r].orderId] = OrderItem(intake[r].orderId, intake[r].body)
               /\ PublishedFor(intake[r].orderId) = {})

C5_Witness ==
    \E r \in Reqs : /\ intake[r].fault = "putCondition"
                     /\ intake[r].orderId \in DOMAIN orders

\* C6 - Recorded at most once under client retries: no two stored orders and
\* no two published events carry the same customerId, productId, quantity
\* and totalAmount.
C6_AtMostOncePerRequest ==
    /\ \A a, b \in DOMAIN orders :
          Request(orders[a]) = Request(orders[b]) => a = b
    /\ \A i, j \in DOMAIN published :
          Request(published[i]) = Request(published[j]) => i = j

\* C7 - Fraud rejection has no side effects: the step in which the Risk Gate
\* flags a valid request answers 422 with the reason and changes neither the
\* orders table nor the published events; a request answered 422 has issued
\* no call but the Risk Gate's.
FlaggedReason == "abnormal quantity"

C7_FraudRejection ==
    /\ [][\A r \in Reqs :
            (intake[r].pc = "checkFraud" /\ intake'[r].pc # "checkFraud"
                /\ intake'[r].reply = "flagged")
            => /\ intake'[r].pc = "done"
               /\ intake'[r].resp = Resp(422, "", FlaggedReason)
               /\ orders' = orders
               /\ published' = published
               /\ invQueue' = invQueue]_vars
    /\ [](\A r \in Reqs :
            (intake[r].pc = "done" /\ intake[r].reply = "flagged")
            => /\ intake[r].resp.statusCode = 422
               /\ intake[r].calls = <<"risk">>)

C7_Witness ==
    \E r \in Reqs : /\ intake[r].pc = "done"
                     /\ intake[r].reply = "flagged"
                     /\ intake[r].body \in ValidBodies
                     /\ intake[r].resp.statusCode = 422

\* C8 - Fail-open: a request whose scoring call failed in transport, and
\* whose store and bus calls did not fail, is answered 201; its order is
\* stored as PENDING and its event is published once.
C8_FailOpen ==
    \A r \in Reqs :
        (intake[r].pc = "done" /\ intake[r].reply = "transportError"
            /\ intake[r].fault = "")
        => /\ intake[r].resp = Resp(201, intake[r].orderId, PENDING)
           /\ intake[r].orderId \in DOMAIN orders
           /\ orders[intake[r].orderId] = OrderItem(intake[r].orderId, intake[r].body)
           /\ Cardinality(PublishedFor(intake[r].orderId)) = 1

C8_Witness ==
    \E r \in Reqs : /\ intake[r].pc = "done"
                     /\ intake[r].reply = "transportError"
                     /\ intake[r].resp.statusCode = 201

C10_InsufficientStock ==
    [][\A w \in Workers :
         LET o == worker[w].orderId IN
         /\ (worker[w].pc = "getStock" /\ worker'[w].pc \notin {"getStock", "threw"}
                /\ worker'[w].stock < worker[w].quantity)
            => /\ worker'[w].pc = "markInsufficient"
               /\ inventory' = inventory
         /\ (worker[w].pc = "markInsufficient"
                /\ worker'[w].pc \notin {"markInsufficient", "threw"})
            => /\ worker[w].stock < worker[w].quantity
               /\ inventory' = inventory
               /\ orders'[o].status = FAILED_INSUFFICIENT_STOCK
               /\ worker'[w].pc = "idle"
               /\ invQueue'[o].st \in {"deleted", "dlq"}]_vars

C10_Witness ==
    \E o \in DOMAIN orders :
        /\ orders[o].quantity > SeededStock
        /\ orders[o].status = FAILED_INSUFFICIENT_STOCK
        /\ o \in DOMAIN invQueue /\ invQueue[o].st = "deleted"
        /\ Stock = SeededStock
        /\ \A w \in Workers : worker[w].pc = "idle"


\* C11 - Lost decrement race: when two invocations for different orders have
\* both read a stock that covers their own quantity but not both quantities,
\* the decrement of the one that writes first succeeds and the other's is
\* rejected at the write: the rejected invocation does not throw, changes no
\* stock, and returns after setting its order to FAILED_INSUFFICIENT_STOCK
\* with its message deleted.  When each of two quantity-1 events on a stock
\* of 1 was delivered once and processed to the end, exactly one order is
\* CONFIRMED, the other is FAILED_INSUFFICIENT_STOCK and the stock is 0.
Racing(w, v) ==
    /\ w # v
    /\ worker[w].pc = "decrement" /\ worker[v].pc = "decrement"
    /\ worker[w].orderId # worker[v].orderId
    /\ worker[w].stock >= worker[w].quantity
    /\ worker[v].stock >= worker[v].quantity
    /\ Stock >= worker[w].quantity /\ Stock >= worker[v].quantity
    /\ Stock < worker[w].quantity + worker[v].quantity

C11_LostDecrementRace ==
    /\ [][\A w, v \in Workers :
            /\ (Racing(w, v) /\ worker'[w].pc = "markConfirmed")
                 => /\ Stock' = Stock - worker[w].quantity
                    /\ Stock' < worker[v].quantity
                    /\ ~DecrementCondition(inventory', worker[v].productId,
                                           worker[v].quantity)
            /\ (worker[w].pc = "decrement" /\ worker'[w].pc \notin {"decrement", "threw"}
                   /\ Stock < worker[w].quantity)
                 => /\ worker'[w].pc = "markRace"
                    /\ inventory' = inventory /\ orders' = orders
            /\ (worker[w].pc = "markRace" /\ worker'[w].pc \notin {"markRace", "threw"})
                 => /\ worker'[w].pc = "idle"
                    /\ inventory' = inventory
                    /\ orders'[worker[w].orderId].status = FAILED_INSUFFICIENT_STOCK
                    /\ invQueue'[worker[w].orderId].st \in {"deleted", "dlq"}]_vars
    /\ [](( /\ SeededStock = 1
            /\ DOMAIN invQueue = OrderIds
            /\ \A o \in OrderIds : /\ invQueue[o].msg.quantity = 1
                                   /\ invQueue[o].rc = 1
                                   /\ invQueue[o].st = "deleted" )
          => /\ Stock = 0
             /\ Cardinality(ConfirmedOrders) = 1
             /\ \A o \in OrderIds \ ConfirmedOrders :
                   orders[o].status = FAILED_INSUFFICIENT_STOCK)

\* an invocation whose decrement was rejected although it had read a stock of
\* 1 for its quantity of 1: the other order took the unit in between
C11_Witness ==
    \E w \in Workers :
        /\ worker[w].pc = "markRace"
        /\ worker[w].stock = 1 /\ worker[w].quantity = 1
        /\ SeededStock = 1 /\ Stock = 0
        /\ \E o \in ConfirmedOrders : o # worker[w].orderId


\* C12 - Transient failures in settlement are not swallowed: an invocation
\* ends successfully only in the step that writes its order's status; a
\* failed stock read, decrement or status write makes the invocation throw
\* and leaves the message undeleted, so a message is deleted only when some
\* invocation wrote a terminal status for its order, and a message is moved
\* to the dead-letter queue only after MaxReceiveCount deliveries.
C12_TransientFailuresPropagate ==
    /\ [][\A w \in Workers :
            /\ (worker[w].pc \in {"getStock", "decrement"}) => worker'[w].pc # "idle"
            /\ (worker[w].pc \in {"markInsufficient", "markConfirmed", "markRace"}
                   /\ worker'[w].pc = "idle")
                 => /\ worker[w].orderId \in DOMAIN orders'
                    /\ orders'[worker[w].orderId].status \in Terminal
            /\ (worker[w].pc # "threw" /\ worker'[w].pc = "threw")
                 => /\ invQueue' = invQueue
                    /\ orders' = orders
            /\ (worker[w].pc = "threw" /\ worker'[w].pc # "threw")
                 => invQueue' = invQueue]_vars
    /\ [](\A o \in DOMAIN invQueue :
            /\ invQueue[o].st = "deleted"
                 => (o \in DOMAIN orders /\ orders[o].status \in Terminal)
            /\ invQueue[o].st = "dlq" => invQueue[o].rc = MaxReceiveCount
            /\ invQueue[o].rc <= MaxReceiveCount)

\* an event whose every delivery failed: it is in the dead-letter queue and
\* its order is still PENDING
C12_Witness ==
    /\ \A w \in Workers : worker[w].pc = "idle"
    /\ \E o \in DOMAIN invQueue :
          /\ invQueue[o].st = "dlq"
          /\ invQueue[o].rc = MaxReceiveCount
          /\ orders[o].status = PENDING


\* C13 - Notification fallback: whenever the content-generation call fails,
\* times out or returns content that is not a {subject, body} pair, the
\* content the handler is about to hand to the email service is the template
\* built from the event's orderId, productId, quantity and totalAmount, with
\* a non-empty subject and a non-empty body.
C13_NotificationFallback ==
    (notifier.pc = "send" /\ notifier.reply \in UnusableReplies)
        => /\ Sendable(notifier.content)
           /\ notifier.content = FallbackContent(Record)


\* the order's message is in the dead-letter queue of the notification queue
NotifDead(o) == o \in DOMAIN notifQueue /\ notifQueue[o].st = "dlq"

\* an email for the order was accepted by the email service
Sent(o) == \E m \in BagToSet(emails) : m.orderId = o

\* C14 - Notification delivery failure is retried: a failed send makes the
\* invocation throw and leaves its messages undeleted; a message of the
\* notification queue is deleted only when an email was sent for its order;
\* and every message put on the notification queue eventually has an email
\* sent for it or is in the dead-letter queue.
C14_NotificationRetried ==
    /\ [][(notifier.pc = "send" /\ notifier'.pc = "threw")
             => (notifQueue' = notifQueue /\ emails' = emails)]_vars
    /\ [](\A o \in DOMAIN notifQueue :
             /\ notifQueue[o].st = "deleted" => Sent(o)
             /\ notifQueue[o].st = "dlq" => notifQueue[o].rc = MaxReceiveCount)
    /\ \A o \in OrderIds :
          [](o \in DOMAIN notifQueue => <>(Sent(o) \/ NotifDead(o)))

\* one event went to the dead-letter queue without an email, another was
\* delivered again and then sent and deleted
C14_Witness ==
    /\ notifier.pc = "idle"
    /\ \E o \in DOMAIN notifQueue : notifQueue[o].st = "dlq" /\ ~Sent(o)
    /\ \E o \in DOMAIN notifQueue :
          notifQueue[o].st = "deleted" /\ notifQueue[o].rc >= 2 /\ Sent(o)


\* C15 - Intake ordering: the handler writes the order record before it
\* publishes and answers 201 only after both; so in every reachable state
\* each published event has a stored order with the same orderId, customerId,
\* productId and quantity, each order has at most one published event, an
\* invocation about to publish has its record stored, and each 201 answer
\* names a stored order with exactly one published event and was given after
\* the calls risk, put, publish in that order.
C15_IntakeOrdering ==
    /\ \A i \in DOMAIN published :
          LET e == published[i] IN
          /\ e.orderId \in DOMAIN orders
          /\ orders[e.orderId].customerId = e.customerId
          /\ orders[e.orderId].productId = e.productId
          /\ orders[e.orderId].quantity = e.quantity
    /\ \A o \in DOMAIN orders : Cardinality(PublishedFor(o)) <= 1
    /\ \A r \in Reqs :
          /\ intake[r].pc = "publish" => intake[r].orderId \in DOMAIN orders
          /\ intake[r].resp.statusCode = 201
               => /\ intake[r].resp.orderId = intake[r].orderId
                  /\ intake[r].resp.orderId \in DOMAIN orders
                  /\ Cardinality(PublishedFor(intake[r].resp.orderId)) = 1
                  /\ intake[r].calls = <<"risk", "put", "publish">>

\* both requests were answered 201: two stored orders, two events
C15_Witness ==
    /\ \A r \in Reqs : intake[r].resp.statusCode = 201
    /\ Len(published) = 2
    /\ Cardinality(DOMAIN orders) = 2


\* C16 - Intake infrastructure failure: an invocation whose store write
\* failed answered 500 and no event with its orderId was published or queued;
\* an invocation whose write succeeded and whose publish failed answered 500,
\* its order record is in the Orders table as written, with status PENDING,
\* in every later state, and no event for it is published or on a queue.
C16_IntakeInfraFailure ==
    \A r \in Reqs :
        LET o == intake[r].orderId IN
        /\ intake[r].fault = "put"
             => /\ intake[r].pc = "done"
                /\ intake[r].resp.statusCode = 500
                /\ intake[r].calls = <<"risk", "put">>
                /\ PublishedFor(o) = {}
                /\ o \notin DOMAIN invQueue /\ o \notin DOMAIN notifQueue
        /\ intake[r].fault = "publish"
             => /\ intake[r].pc = "done"
                /\ intake[r].resp.statusCode = 500
                /\ intake[r].calls = <<"risk", "put", "publish">>
                /\ o \in DOMAIN orders
                /\ orders[o] = OrderItem(o, intake[r].body)
                /\ orders[o].status = PENDING
                /\ PublishedFor(o) = {}
                /\ o \notin DOMAIN invQueue /\ o \notin DOMAIN notifQueue

\* one request's publish failed and its order is PENDING, while the other
\* request's order was settled and nothing is left on the queue
C16_Witness ==
    /\ \E r \in Reqs :
          /\ intake[r].fault = "publish"
          /\ orders[intake[r].orderId].status = PENDING
    /\ ConfirmedOrders # {}
    /\ Settled


\* the order's message was deleted after an invocation that wrote a terminal
\* status, or it is in the dead-letter queue of the inventory queue
InvSettled(o) ==
    /\ o \in DOMAIN invQueue
    /\ \/ invQueue[o].st = "dlq"
       \/ /\ invQueue[o].st = "deleted"
          /\ o \in DOMAIN orders /\ orders[o].status \in Terminal

\* C17 - Settlement liveness: with a queue that keeps delivering within its
\* budget of MaxReceiveCount receives and invocations that run to their end,
\* every order whose event was published eventually has a terminal status
\* with its message deleted, or has its message in the dead-letter queue.
C17_SettlementLiveness ==
    \A o \in OrderIds : [](PublishedFor(o) # {} => <>InvSettled(o))

\* everything is settled: one event was delivered again before an invocation
\* settled it, another ran out of deliveries
C17_Witness ==
    /\ Settled
    /\ \E o \in DOMAIN invQueue :
          invQueue[o].st = "deleted" /\ invQueue[o].rc >= 2 /\ orders[o].status \in Terminal
    /\ \E o \in DOMAIN invQueue : invQueue[o].st = "dlq"


\* C18 - Fan-out independence: every published event is on both queues; a
\* step of the Notifier Lambda or of its queue changes no order, no stock and
\* nothing of the inventory queue and its invocations, and a step of the
\* Inventory Lambda or of its queue changes nothing of the notification side;
\* and whatever the state of the other consumer, a visible message with
\* receives left can be handed to an idle instance, a message that used up
\* its receives can be dead-lettered, and a started invocation can go on.
C18_FanOutIndependence ==
    /\ [](\A i \in DOMAIN published :
            LET o == published[i].orderId IN
            /\ o \in DOMAIN invQueue /\ invQueue[o].msg = published[i]
            /\ o \in DOMAIN notifQueue /\ notifQueue[o].msg = published[i])
    /\ [][/\ (notifier' # notifier \/ emails' # emails
                 \/ (notifQueue' # notifQueue /\ published' = published))
               => UNCHANGED <<orders, inventory, invQueue, worker, intake, published>>
          /\ (worker' # worker \/ inventory' # inventory
                 \/ (invQueue' # invQueue /\ published' = published))
               => UNCHANGED <<notifQueue, notifier, emails>>]_vars
    /\ [](\A o \in DOMAIN invQueue :
            /\ (invQueue[o].st = "visible" /\ invQueue[o].rc < MaxReceiveCount
                   /\ \E w \in Workers : worker[w].pc = "idle")
                 => ENABLED (\E w \in Workers : Receive(w, o))
            /\ (invQueue[o].st = "visible" /\ invQueue[o].rc >= MaxReceiveCount)
                 => ENABLED DeadLetter(o))
    /\ [](\A w \in Workers : worker[w].pc # "idle" => ENABLED WorkerStep(w))
    /\ []((Receivable # {} /\ notifier.pc = "idle") => ENABLED NotifReceive)
    /\ [](notifier.pc # "idle" => ENABLED (Generate \/ Send \/ NotifierFinish))

\* the order was CONFIRMED and its inventory message deleted although its
\* notification ran out of deliveries without an email
C18_Witness ==
    \E o \in DOMAIN notifQueue :
        /\ NotifDead(o) /\ ~Sent(o)
        /\ invQueue[o].st = "deleted"
        /\ orders[o].status = CONFIRMED


\* the invocation of the Inventory Lambda that writes the status of order o
\* in this step
StatusWriter(w, o) ==
    /\ worker[w].orderId = o
    /\ worker[w].pc \in {"markInsufficient", "markConfirmed", "markRace"}
    /\ worker'[w].pc = "idle"

\* C19 - Single writer of order status: a stored order record is changed
\* only by an Inventory Lambda invocation writing the status of its order,
\* only in its status, and only once (from PENDING); a step of the intake
\* handler changes no stored record and adds only PENDING records; a step of
\* the Notifier Lambda or of its queue changes neither table.
C19_SingleWriter ==
    [][/\ \A o \in DOMAIN orders :
            /\ o \in DOMAIN orders'
            /\ orders'[o] # orders[o]
                 => /\ \E w \in Workers : StatusWriter(w, o)
                    /\ orders'[o] = [orders[o] EXCEPT !.status = orders'[o].status]
                    /\ orders[o].status = PENDING
       /\ intake' # intake
            => /\ \A o \in DOMAIN orders : orders'[o] = orders[o]
               /\ \A o \in DOMAIN orders' \ DOMAIN orders : orders'[o].status = PENDING
       /\ (notifier' # notifier \/ emails' # emails
              \/ (notifQueue' # notifQueue /\ published' = published))
            => (orders' = orders /\ inventory' = inventory)]_vars


\* the invocation is working on an order
Running(w) ==
    worker[w].pc \in {"getStock", "markInsufficient", "decrement", "markConfirmed",
                      "markRace"}

\* C20 - Absent inventory item: an invocation working on an event whose
\* productId has no Inventory record reads the stock as 0, never gets to
\* write CONFIRMED, and when it returns it has set the order's status to
\* FAILED_INSUFFICIENT_STOCK and its message is deleted; no step creates an
\* Inventory record: the table has the items it was seeded with.
C20_AbsentInventoryItem ==
    /\ [](DOMAIN inventory = DOMAIN seeded)
    /\ [][\A w \in Workers :
            (Running(w) /\ worker[w].productId \notin DOMAIN inventory)
              => /\ inventory' = inventory
                 /\ worker'[w].pc # "markConfirmed"
                 /\ (worker[w].pc = "getStock" /\ worker'[w].pc \notin {"getStock", "threw"})
                      => worker'[w].stock = 0
                 /\ (worker[w].pc # "idle" /\ worker'[w].pc = "idle")
                      => /\ orders'[worker[w].orderId].status = FAILED_INSUFFICIENT_STOCK
                         /\ invQueue'[worker[w].orderId].st \in {"deleted", "dlq"}]_vars

\* nothing was seeded; an order of quantity 1 was set to
\* FAILED_INSUFFICIENT_STOCK, its message is deleted and the table is still
\* empty
C20_Witness ==
    /\ seeded = EmptyTable /\ inventory = EmptyTable
    /\ \E o \in DOMAIN invQueue :
          /\ invQueue[o].msg.quantity = 1
          /\ invQueue[o].st = "deleted"
          /\ orders[o].status = FAILED_INSUFFICIENT_STOCK


\* C21 - Stock only decreases: every request answered 201 has a positive
\* quantity; a decrement that succeeds lowers the product's stock by exactly
\* its order's quantity, which is positive; and no step raises a product's
\* stock.
C21_StockOnlyDecreases ==
    /\ [](\A r \in Reqs :
            intake[r].resp.statusCode = 201 => intake[r].body.quantity > 0)
    /\ [][/\ Stock' <= Stock
          /\ \A w \in Workers :
                (worker[w].pc = "decrement" /\ worker'[w].pc = "markConfirmed")
                  => /\ worker[w].quantity > 0
                     /\ Stock' = Stock - worker[w].quantity]_vars


\* the number of emails the email service accepted for the order
SentCount(o) ==
    BagCardinality([m \in {x \in BagToSet(emails) : x.orderId = o} |-> emails[m]])

\* C22 - Per-event independence in a notification batch: an invocation ends,
\* returning or throwing, only after it attempted the send for every event of
\* its batch, so a failed send for one event does not keep the later events
\* from their attempt; and no event has its email sent more than once, so a
\* failed send for one event does not get the already sent events of its
\* batch sent again.
C22_BatchIndependence ==
    /\ [][(notifier.pc \notin {"idle", "threw"} /\ notifier'.pc \in {"idle", "threw"})
             => (notifier.pc = "send" /\ notifier.i = Len(notifier.batch))]_vars
    /\ [](\A o \in OrderIds : SentCount(o) <= 1)


\* the replies that cannot be read as an {isFraudulent, reason} object
MalformedReplies == {"notJson", "wrongShape", "jsonNull", "missingChoices"}

\* C23 - Malformed Risk Gate response equals transport failure: a request
\* whose scoring call answered with something that is not an
\* {isFraudulent, reason} object, and whose store and bus calls did not fail,
\* is answered 201; its order is stored as PENDING and its event is
\* published once.
C23_MalformedEqualsTransportFailure ==
    \A r \in Reqs :
        (intake[r].pc = "done" /\ intake[r].reply \in MalformedReplies
            /\ intake[r].fault = "")
        => /\ intake[r].resp = Resp(201, intake[r].orderId, PENDING)
           /\ intake[r].orderId \in DOMAIN orders
           /\ orders[intake[r].orderId].status = PENDING
           /\ Cardinality(PublishedFor(intake[r].orderId)) = 1

====
